---------------------------- MODULE Spec2Model ----------------------------
(***************************************************************************)
(* cbsummary: poll every configured Couchbase cluster over its REST API    *)
(* and write one summary report (full JSON, brief JSON or tab-separated).  *)
(*                                                                         *)
(* The module models main() of the reporting tool (flag checks, config     *)
(* load, the cluster/node polling loops, record assembly, rendering and    *)
(* the file write) and the REST client it drives (executeGet,              *)
(* executeRequest, GetPoolsData, GetPoolsDefaultData and the Error()       *)
(* methods of its error types).                                            *)
(***************************************************************************)
EXTENDS Integers, Sequences, FiniteSets, TLC

(***************************************************************************)
(* Bounds of the model.                                                    *)
(***************************************************************************)
\* largest number of clusters in the configuration file
MaxClusters == 2
\* largest number of node addresses in the configuration file, all clusters
\* together
MaxNodes == 3
\* largest number of nodes a /pools/default answer lists
MaxPayloadNodes == 2
\* largest HTTP status code a node answers with
MaxStatus == 599

(***************************************************************************)
(* Go values.                                                              *)
(***************************************************************************)
\* the nil error / nil pointer
Nil == [type |-> "nil"]

\* Go strings are byte strings; the bytes that occur in version strings
CharCode(c) ==
  CASE c = "-" -> 45 [] c = "." -> 46
    [] c = "0" -> 48 [] c = "1" -> 49 [] c = "2" -> 50 [] c = "3" -> 51
    [] c = "4" -> 52 [] c = "5" -> 53 [] c = "6" -> 54 [] c = "7" -> 55
    [] c = "8" -> 56 [] c = "9" -> 57

\* Go's s < t on strings: bytewise lexicographic order
RECURSIVE StringLess(_, _)
StringLess(s, t) ==
  IF Len(t) = 0 THEN FALSE
  ELSE IF Len(s) = 0 THEN TRUE
  ELSE IF CharCode(Head(s)) < CharCode(Head(t)) THEN TRUE
  ELSE IF CharCode(Head(s)) > CharCode(Head(t)) THEN FALSE
  ELSE StringLess(Tail(s), Tail(t))

\* strings.Join(elems, sep)
RECURSIVE StringsJoin(_, _)
StringsJoin(elems, sep) ==
  IF Len(elems) = 0 THEN ""
  ELSE IF Len(elems) = 1 THEN elems[1]
  ELSE elems[1] \o sep \o StringsJoin(Tail(elems), sep)

(***************************************************************************)
(* float64 values.  Every number the tool handles is m * 1024^e with m a   *)
(* small integer, so a float is kept as [m, e] with m not a multiple of    *)
(* 1024 (0 is [0, 0]); dividing by 1024.0 is exact in binary floating      *)
(* point and lowers the exponent by one.                                   *)
(***************************************************************************)
Float(m, e) == [m |-> m, e |-> e]
FloatZero == Float(0, 0)

\* x / 1024.0
DivBy1024(x) == IF x.m = 0 THEN x ELSE Float(x.m, x.e - 1)

\* 1024^n for n >= 0
RECURSIVE Pow1024(_)
Pow1024(n) == IF n = 0 THEN 1 ELSE 1024 * Pow1024(n - 1)

\* fmt.Sprintf("%.1f", x): x rounded to one decimal, ties to even
\* (for the floats of the model: e >= -1)
FormatF1(x) ==
  LET scaled == IF x.e >= 0 THEN x.m * Pow1024(x.e) * 10 * 1024 ELSE x.m * 10
      q == scaled \div 1024
      r == scaled % 1024
      tenths == IF r > 512 \/ (r = 512 /\ q % 2 = 1) THEN q + 1 ELSE q
  IN  ToString(tenths \div 10) \o "." \o ToString(tenths % 10)

(***************************************************************************)
(* The REST client.                                                        *)
(***************************************************************************)
StatusOK == 200
StatusCreated == 201
StatusAccepted == 202
StatusBadRequest == 400
StatusUnauthorized == 401
StatusForbidden == 403
StatusInternalServerError == 500

\* RestClientError.Error(); e.err is the text of the wrapped error
RestClientErrorString(e) ==
  "Rest client error (" \o e.method \o " " \o e.url \o "): " \o e.err

\* UnknownAuthorityError.Error(): the wrapped text, then the guidance
UnknownAuthorityGuidance ==
  "\n\nIf you are using self-signed certificates you can "
  \o "re-run this command with\nthe --no-ssl-verify flag. Note however that"
  \o " disabling ssl verification\nmeans that cbbackupmgr will be vulnerable"
  \o " to man-in-the-middle attacks.\n\nFor the most secure access to Couchbase"
  \o " make sure that you have X.509\ncertificates set up in your cluster and"
  \o " use the --cacert flag to specify\nyour client certificate."

UnknownAuthorityErrorString(e) == e.err \o UnknownAuthorityGuidance

\* HttpError.Error()
HttpErrorString(e) ==
  IF e.code = StatusBadRequest
    THEN "Bad request executing " \o e.method \o " " \o e.resource
           \o " due to " \o e.body
  ELSE IF e.code = StatusUnauthorized
    THEN "Authentication error executing \"" \o e.method \o " " \o e.resource
           \o "\" check username and password"
  ELSE IF e.code = StatusForbidden
    THEN e.body
  ELSE IF e.code = StatusInternalServerError
    THEN "Internal server error while executing \"" \o e.method \o " "
           \o e.resource \o "\" check the server logs for more details"
  ELSE "Recieved error " \o ToString(e.code) \o " while executing \""
           \o e.method \o " " \o e.resource \o "\""

\* err.Error() for every error value the client can return; the errors of
\* the Go libraries (net, x509, json) carry their text
ErrorString(e) ==
  CASE e.type = "HttpError" -> HttpErrorString(e)
    [] e.type = "RestClientError" -> RestClientErrorString(e)
    [] e.type = "UnknownAuthorityError" -> UnknownAuthorityErrorString(e)
    [] OTHER -> e.text

HttpError(code, method, resource, body) ==
  [type |-> "HttpError", code |-> code, method |-> method,
   resource |-> resource, body |-> body]

RestClientError(method, url, err) ==
  [type |-> "RestClientError", method |-> method, url |-> url,
   err |-> ErrorString(err)]

\* CreateRestClient(host, username, password, nil)
CreateRestClient(host, username, password) ==
  [secure |-> (Len(host) >= 8 /\ SubSeq(host, 1, 8) = "https://"),
   host |-> host, username |-> username, password |-> password]

(***************************************************************************)
(* What the HTTP library hands back from client.Do(req): an error, or a    *)
(* response with a status code and a body.  A body is                      *)
(*   [readErr, text, doc]: readErr - reading the body fails;               *)
(*   text - the bytes; doc - the JSON document the bytes hold, or NoJSON.  *)
(* A JSON document is a function from its keys to its values.              *)
(***************************************************************************)
NoJSON == [type |-> "not JSON"]

TextBody(text) == [readErr |-> FALSE, text |-> text, doc |-> NoJSON]
JSONBody(doc) == [readErr |-> FALSE, text |-> "{...}", doc |-> doc]
BrokenBody == [readErr |-> TRUE, text |-> "", doc |-> NoJSON]

DoError(err) == [kind |-> "error", err |-> err]
DoResponse(code, body) == [kind |-> "response", StatusCode |-> code, Body |-> body]

\* errors of the Go libraries
NetOpError == [type |-> "*net.OpError",
               text |-> "dial tcp: connect: connection refused"]
X509UnknownAuthority == [type |-> "x509.UnknownAuthorityError",
                         text |-> "x509: certificate signed by unknown authority"]
X509HostnameError == [type |-> "x509.HostnameError",
                      text |-> "x509: certificate is not valid for any names"]
JSONSyntaxError == [type |-> "*json.SyntaxError",
                    text |-> "invalid character '<' looking for beginning of value"]
ProtocolError == [type |-> "*http.ProtocolError", text |-> "malformed HTTP response"]
URLParseError == [type |-> "*url.Error", text |-> "parse: missing protocol scheme"]
\* what http.Client.Do returns: the cause wrapped in *url.Error
URLError(op, url, inner) ==
  [type |-> "*url.Error", Err |-> inner,
   text |-> op \o " \"" \o url \o "\": " \o inner.text]

\* the JSON key's value in doc, or the Go zero value when the key is absent
Field(doc, key, zero) == IF key \in DOMAIN doc THEN doc[key] ELSE zero

\* http.NewRequest fails on a URL that does not parse
NewRequestFails(uri) == Len(uri) > 0 /\ Head(uri) = ":"

\* the type switch of executeRequest on the error of client.Do
TransportError(req, err) ==
  CASE err.type = "*url.Error" -> err.Err
    [] err.type = "x509.UnknownAuthorityError" ->
         [type |-> "UnknownAuthorityError", err |-> err.text]
    [] err.type \in {"x509.CertificateInvalidError", "x509.ConstraintViolationError",
                     "x509.HostnameError", "x509.SystemRootsError",
                     "x509.UnhandledCriticalExtension"} -> err
    [] OTHER -> RestClientError(req.Method, req.URL, err)

\* the body of a 403 decoded into {Message string; Permissions []string}
ForbiddenMessage(doc) ==
  Field(doc, "message", "") \o ": "
    \o StringsJoin(Field(doc, "permissions", <<>>), ", ")

\* a slip of executeRequest: every 2xx status counts as success
executeRequestAny2xx(req, out) ==
  IF out.kind = "error"
    THEN [resp |-> Nil, err |-> TransportError(req, out.err)]
  ELSE IF out.StatusCode \div 100 # 2
    THEN [resp |-> Nil, err |-> HttpError(out.StatusCode, req.Method, req.URL, "")]
  ELSE [resp |-> out, err |-> Nil]

\* RestClient.executeRequest(req), given what client.Do(req) returns:
\* [resp, err], one of them Nil
executeRequest(req, out) ==
  IF out.kind = "error"
    THEN [resp |-> Nil, err |-> TransportError(req, out.err)]
  ELSE IF out.StatusCode = StatusBadRequest
    THEN [resp |-> Nil,
          err |-> HttpError(out.StatusCode, req.Method, req.URL,
                            IF out.Body.readErr THEN "<no body>" ELSE out.Body.text)]
  ELSE IF out.StatusCode = StatusForbidden
    THEN IF out.Body.readErr \/ out.Body.doc = NoJSON
           THEN [resp |-> Nil,
                 err |-> HttpError(out.StatusCode, req.Method, req.URL, "")]
           ELSE [resp |-> Nil,
                 err |-> HttpError(out.StatusCode, req.Method, req.URL,
                                   ForbiddenMessage(out.Body.doc))]
  ELSE IF out.StatusCode # StatusOK /\ out.StatusCode # StatusAccepted
          /\ out.StatusCode # StatusCreated
    THEN [resp |-> Nil, err |-> HttpError(out.StatusCode, req.Method, req.URL, "")]
  ELSE [resp |-> out, err |-> Nil]

\* RestClient.executeGet(uri)
executeGet(r, uri, out) ==
  IF NewRequestFails(uri)
    THEN [resp |-> Nil, err |-> RestClientError("GET", uri, URLParseError)]
    ELSE executeRequest([Method |-> "GET", URL |-> uri,
                         username |-> r.username, password |-> r.password], out)

\* json decoding of a /pools answer into Pools
DecodePools(doc) ==
  [ImplementationVersion |-> Field(doc, "implementationVersion", ""),
   IsEnterprise |-> Field(doc, "isEnterprise", FALSE),
   Uuid |-> Field(doc, "uuid", "")]

\* RestClient.GetPoolsData(): [data, err]
GetPoolsData(r, out) ==
  LET url == r.host \o "/pools"
      got == executeGet(r, url, out)
  IN  IF got.err # Nil THEN [data |-> Nil, err |-> got.err]
      ELSE IF got.resp.Body.readErr \/ got.resp.Body.doc = NoJSON
        THEN [data |-> Nil, err |-> RestClientError("GET", url, JSONSyntaxError)]
      ELSE [data |-> DecodePools(got.resp.Body.doc), err |-> Nil]

\* json decoding of one element of "nodes" into NodeInfo; a server older
\* than 6.5 sends no cpu_cores_available and the field stays 0
DecodeNodeInfo(doc) ==
  [Hostname |-> Field(doc, "hostname", ""),
   MemoryTotal |-> Field(doc, "memoryTotal", FloatZero),
   Services |-> Field(doc, "services", <<>>),
   Status |-> Field(doc, "status", ""),
   SystemStats |->
     [CPU_cores_available |->
        Field(Field(doc, "systemStats", <<>>), "cpu_cores_available", FloatZero)],
   Version |-> Field(doc, "version", "")]

\* json decoding of a /pools/default answer into PoolsDefault
DecodePoolsDefault(doc) ==
  LET nodes == Field(doc, "nodes", <<>>)
  IN  [Balanced |-> Field(doc, "balanced", FALSE),
       ClusterName |-> Field(doc, "clusterName", ""),
       FtsMemoryQuota |-> Field(doc, "ftsMemoryQuota", 0),
       IndexMemoryQuota |-> Field(doc, "indexMemoryQuota", 0),
       MemoryQuota |-> Field(doc, "memoryQuota", 0),
       Name |-> Field(doc, "name", ""),
       Nodes |-> [i \in 1..Len(nodes) |-> DecodeNodeInfo(nodes[i])],
       RebalanceStatus |-> Field(doc, "rebalanceStatus", ""),
       StorageTotals |-> Field(doc, "storageTotals", <<>>)]

\* RestClient.GetPoolsDefaultData(): [data, err]
GetPoolsDefaultData(r, out) ==
  LET url == r.host \o "/pools/default"
      got == executeGet(r, url, out)
  IN  IF got.err # Nil THEN [data |-> Nil, err |-> got.err]
      ELSE IF got.resp.Body.readErr \/ got.resp.Body.doc = NoJSON
        THEN [data |-> Nil, err |-> RestClientError("GET", url, JSONSyntaxError)]
      ELSE [data |-> DecodePoolsDefault(got.resp.Body.doc), err |-> Nil]

(***************************************************************************)
(* The servers.  What a node may answer to a request: the documents of     *)
(* /pools and /pools/default, and the failures.                            *)
(***************************************************************************)
\* a node of a server older than 6.5: no cpu_cores_available in systemStats
WireNodeOld ==
  [hostname |-> "10.0.0.1:8091", memoryTotal |-> Float(8, 3),
   services |-> <<"kv">>, status |-> "healthy",
   systemStats |-> [mem_total |-> Float(8, 3)], version |-> "6.1.0"]

\* a node of a 6.6 server, 16 GiB (17179869184 bytes) and 4 cores
WireNodeNew ==
  [hostname |-> "10.0.0.2:8091", memoryTotal |-> Float(16, 3),
   services |-> <<"kv", "index">>, status |-> "healthy",
   systemStats |-> [cpu_cores_available |-> Float(4, 0),
                    mem_total |-> Float(16, 3)],
   version |-> "6.6.0"]

\* a second 6.6 node, 8.5 GiB and 8 cores
WireNodeNew2 ==
  [hostname |-> "10.0.0.3:8091", memoryTotal |-> Float(8704, 2),
   services |-> <<"kv">>, status |-> "healthy",
   systemStats |-> [cpu_cores_available |-> Float(8, 0),
                    mem_total |-> Float(8704, 2)],
   version |-> "6.6.0"]

\* the nodes of the fleet; a cluster is some of them, in this order
FleetNodes == <<WireNodeNew, WireNodeOld, WireNodeNew2>>

\* the sequences over S of length at most n
SeqsUpTo(S, n) == UNION {[1..k -> S] : k \in 0..n}

\* the elements of seq at the indices in I, in the order of seq
RECURSIVE Pick(_, _)
Pick(seq, I) ==
  IF Len(seq) = 0 THEN <<>>
  ELSE (IF Len(seq) \in I THEN Pick(SubSeq(seq, 1, Len(seq) - 1), I) \o <<seq[Len(seq)]>>
        ELSE Pick(SubSeq(seq, 1, Len(seq) - 1), I))

\* the node lists a /pools/default answer may hold
NodeLists ==
  {Pick(FleetNodes, I) :
     I \in {J \in SUBSET (1..Len(FleetNodes)) : Cardinality(J) <= MaxPayloadNodes}}

\* the server version of the node at host: during an upgrade of a cluster
\* the node listed first (http://c<i>n1:8091) still runs the older server
ServerVersionAt(host) ==
  IF Len(host) >= 7 /\ SubSeq(host, Len(host) - 6, Len(host) - 5) = "n1"
    THEN "6.5.1-6299-enterprise"
    ELSE "6.6.0-7909-enterprise"

\* the /pools answer of the node at host; its uuid names the node, so that a
\* record shows which node's answer it holds
PoolsDoc(host) ==
  [implementationVersion |-> ServerVersionAt(host), isEnterprise |-> TRUE,
   uuid |-> "uuid@" \o host]

PoolsDefaultDocs ==
  {[balanced |-> TRUE, clusterName |-> "prod", ftsMemoryQuota |-> 512,
    indexMemoryQuota |-> 1024, memoryQuota |-> 8192, name |-> "default",
    nodes |-> ns, rebalanceStatus |-> "none",
    storageTotals |-> [hdd |-> [total |-> Float(500, 3), used |-> Float(120, 3)],
                       ram |-> [total |-> Float(16, 3), used |-> Float(5, 3)]]]
     : ns \in NodeLists}

\* the ways a request of the polling loop fails
FailedOutcomes(url) ==
  {DoError(URLError("Get", url, NetOpError)),
   DoResponse(StatusUnauthorized, TextBody("")),
   DoResponse(StatusForbidden, TextBody("<html>Forbidden</html>"))}

\* what client.Do may return for GET host/pools
PoolsOutcomes(host, url) ==
  FailedOutcomes(url) \cup {DoResponse(StatusOK, JSONBody(PoolsDoc(host)))}

\* what client.Do may return for GET host/pools/default
PoolsDefaultOutcomes(url) ==
  FailedOutcomes(url) \cup {DoResponse(StatusOK, JSONBody(d)) : d \in PoolsDefaultDocs}

(***************************************************************************)
(* The command line and the configuration file.                            *)
(***************************************************************************)
\* the i-th configured cluster, listing n node addresses
ClusterOf(i, n) ==
  [Login |-> "Administrator", Pass |-> "password" \o ToString(i),
   Nodes |-> [j \in 1..n |->
                "http://c" \o ToString(i) \o "n" \o ToString(j) \o ":8091"]]

\* the sum of a sequence of numbers
RECURSIVE Sum(_)
Sum(ns) == IF Len(ns) = 0 THEN 0 ELSE Head(ns) + Sum(Tail(ns))

\* the cluster lists a configuration file may hold
ClusterLists ==
  {[i \in 1..Len(ns) |-> ClusterOf(i, ns[i])] :
     ns \in {x \in SeqsUpTo(0..MaxNodes, MaxClusters) : Sum(x) <= MaxNodes}}

\* the file --config names: absent, not JSON, or a cluster list
ConfigFiles ==
  {[exists |-> FALSE, parses |-> FALSE, Clusters |-> <<>>],
   [exists |-> TRUE, parses |-> FALSE, Clusters |-> <<>>]}
  \cup {[exists |-> TRUE, parses |-> TRUE, Clusters |-> cl] : cl \in ClusterLists}

\* the flags
Flags ==
  [HELP : BOOLEAN, FULL : BOOLEAN, CSV : BOOLEAN,
   CONFIG_FILE : {"", "clusters.json"}, OUTPUT_FILE : {"summary.out"}]

(***************************************************************************)
(* main().                                                                 *)
(***************************************************************************)
VARIABLES
  pc,              \* where main() is
  flags,           \* the parsed command line
  configFile,      \* the file --config names
  outputFiles,     \* the files written: name -> body
  stdout,          \* the diagnostic main() ends with, "" so far
  clusters,        \* clusters.Clusters, the parsed configuration
  clusterSummary,  \* the SummaryInfo being built
  cnum,            \* index of the cluster being polled (1-based)
  nodeIdx,         \* index of the node being tried in cluster.Nodes (1-based)
  thisCluster,     \* the *ClusterSummary of this cluster, or Nil
  briefCluster,    \* the *BriefCluster of this cluster, or Nil
  cerr,            \* the last error of this cluster, or Nil
  pools,           \* the answer of /pools of the node being tried
  poolsDefaults,   \* the answer of /pools/default of the node being tried
  requests,        \* history: the HTTP requests issued so far, in order
  lastFailure,     \* history: the last failed request of this cluster, or Nil
  inFlight,        \* the requests handed to client.Do that have not returned
  call             \* a call of the REST client on its own: its input and result

vars == <<pc, flags, configFile, outputFiles, stdout, clusters, clusterSummary,
          cnum, nodeIdx, thisCluster, briefCluster, cerr, pools, poolsDefaults,
          requests, lastFailure, inFlight, call>>

locals == <<thisCluster, briefCluster, cerr, pools, poolsDefaults, lastFailure>>

\* an empty Go map
EmptyMap == [k \in {} |-> 0]

\* a slip of MapIncrement: m[k] = 1
MapSetOne(m, k) == [x \in DOMAIN m \cup {k} |-> IF x = k THEN 1 ELSE m[x]]

\* m[k] = m[k] + 1 on a Go map (an absent key reads 0)
MapIncrement(m, k) ==
  IF k \in DOMAIN m THEN [m EXCEPT ![k] = @ + 1]
  ELSE [x \in DOMAIN m \cup {k} |-> IF x = k THEN 1 ELSE m[x]]

\* the loop "for _, nodeInfo := range nodes { m[nodeInfo.Version]++ }"
RECURSIVE CountVersions(_, _)
CountVersions(m, nodes) ==
  IF Len(nodes) = 0 THEN m
  ELSE CountVersions(MapIncrement(m, Head(nodes).Version), Tail(nodes))

\* a slip of SetCluster: the record always lands in the first slot
SetClusterFirst(summary, i, record) == [summary EXCEPT !.Clusters[1] = record]

\* clusterSummary.Clusters[cnum] = record
SetCluster(summary, i, record) == [summary EXCEPT !.Clusters[i] = record]

\* clusterSummary.TotalNumNodes = clusterSummary.TotalNumNodes + len(nodes)
AddNodeCount(summary, nodes) ==
  [summary EXCEPT !.TotalNumNodes = @ + Len(nodes)]

\* a slip of AddNodeVersions: a version is counted once per cluster that
\* runs it, however many nodes of the cluster do
AddNodeVersionsOncePerCluster(summary, nodes) ==
  [summary EXCEPT !.NodeVersions =
     [v \in DOMAIN @ \cup {nodes[k].Version : k \in 1..Len(nodes)} |->
        (IF v \in DOMAIN @ THEN @[v] ELSE 0)
        + (IF \E k \in 1..Len(nodes) : nodes[k].Version = v THEN 1 ELSE 0)]]

\* the fleet-wide version tally, once per node
AddNodeVersions(summary, nodes) ==
  [summary EXCEPT !.NodeVersions = CountVersions(@, nodes)]

\* the default name of the output file carries the time of the run
OutputFileName(f) ==
  IF Len(f.OUTPUT_FILE) = 0 THEN "cbsummary.out.<timestamp>" ELSE f.OUTPUT_FILE

Init ==
  /\ pc = "start"
  /\ flags \in Flags
  /\ configFile \in ConfigFiles
  /\ outputFiles = EmptyMap
  /\ stdout = ""
  /\ clusters = <<>>
  /\ clusterSummary = Nil
  /\ cnum = 0
  /\ nodeIdx = 0
  /\ thisCluster = Nil
  /\ briefCluster = Nil
  /\ cerr = Nil
  /\ pools = Nil
  /\ poolsDefaults = Nil
  /\ requests = <<>>
  /\ lastFailure = Nil
  /\ inFlight = {}
  /\ call = Nil

\* a slip of CheckFlags: --full with --csv is let through
CheckFlagsNoConflict ==
  /\ pc = "start"
  /\ IF flags.HELP \/ Len(flags.CONFIG_FILE) = 0
       THEN pc' = "done" /\ stdout' = "usage: cbsummary --config=<config file> [--output=<output file>] [--full]"
     ELSE pc' = "load" /\ stdout' = stdout
  /\ UNCHANGED <<call, inFlight, flags, configFile, outputFiles, clusters, clusterSummary, cnum,
                 nodeIdx, locals, requests>>

\* the help message, and the check that --full and --csv are not both set
CheckFlags ==
  /\ pc = "start"
  /\ IF flags.HELP \/ Len(flags.CONFIG_FILE) = 0
       THEN pc' = "done" /\ stdout' = "usage: cbsummary --config=<config file> [--output=<output file>] [--full]"
     ELSE IF flags.FULL /\ flags.CSV
       THEN pc' = "done" /\ stdout' = "CSV format is not available for full reports."
     ELSE pc' = "load" /\ stdout' = stdout
  /\ UNCHANGED <<call, inFlight, flags, configFile, outputFiles, clusters, clusterSummary, cnum,
                 nodeIdx, locals, requests>>

\* a slip of LoadConfig: the error of json.Unmarshal is ignored and the run
\* goes on with the clusters it has, none
LoadConfigIgnoringParseError ==
  /\ pc = "load"
  /\ IF ~configFile.exists
       THEN /\ pc' = "done"
            /\ stdout' = "Error reading configuration file " \o flags.CONFIG_FILE
            /\ UNCHANGED <<clusters, clusterSummary, cnum>>
     ELSE /\ pc' = "cluster"
          /\ clusters' = configFile.Clusters
          /\ clusterSummary' =
               [NumClusters |-> Len(configFile.Clusters),
                TotalNumNodes |-> 0,
                NodeVersions |-> EmptyMap,
                Clusters |-> [i \in 1..Len(configFile.Clusters) |-> Nil]]
          /\ cnum' = 1
          /\ stdout' = stdout
  /\ UNCHANGED <<call, inFlight, flags, configFile, outputFiles, nodeIdx, locals,
                 requests>>

\* read and parse the configuration file, then set up the summary
LoadConfig ==
  /\ pc = "load"
  /\ IF ~configFile.exists
       THEN /\ pc' = "done"
            /\ stdout' = "Error reading configuration file " \o flags.CONFIG_FILE
            /\ UNCHANGED <<clusters, clusterSummary, cnum>>
     ELSE IF ~configFile.parses
       THEN /\ pc' = "done"
            /\ stdout' = "Error parsing configuration file " \o flags.CONFIG_FILE
            /\ UNCHANGED <<clusters, clusterSummary, cnum>>
     ELSE /\ pc' = "cluster"
          /\ clusters' = configFile.Clusters
          /\ clusterSummary' =
               [NumClusters |-> Len(configFile.Clusters),
                TotalNumNodes |-> 0,
                NodeVersions |-> EmptyMap,
                Clusters |-> [i \in 1..Len(configFile.Clusters) |-> Nil]]
          /\ cnum' = 1
          /\ stdout' = stdout
  /\ UNCHANGED <<call, inFlight, flags, configFile, outputFiles, nodeIdx, locals, requests>>

\* for cnum, cluster := range clusters.Clusters: the next cluster
BeginCluster ==
  /\ pc = "cluster"
  /\ cnum <= Len(clusters)
  /\ pc' = "node"
  /\ nodeIdx' = 1
  /\ thisCluster' = Nil /\ briefCluster' = Nil /\ cerr' = Nil
  /\ pools' = Nil /\ poolsDefaults' = Nil /\ lastFailure' = Nil
  /\ UNCHANGED <<call, inFlight, flags, configFile, outputFiles, stdout, clusters, clusterSummary,
                 cnum, requests>>

\* the request issued to node nodeIdx of cluster cnum for path, and whether
\* it succeeded: err is Nil or the error the client returned
Request(path, err) ==
  [cnum |-> cnum, node |-> nodeIdx, host |-> clusters[cnum].Nodes[nodeIdx],
   path |-> path, ok |-> (err = Nil)]

\* the failed request, with the text of its error
Failure(path, err) ==
  [cnum |-> cnum, node |-> nodeIdx, path |-> path, msg |-> ErrorString(err)]

\* a slip of RecordError: only the first error of a cluster is kept
RecordFirstError(last, err) == IF last = Nil THEN err ELSE last

\* cerr = err
RecordError(last, err) == err

\* the request of the node being tried that client.Do has been handed
Pending(path) == [cnum |-> cnum, node |-> nodeIdx, path |-> path]

\* a slip of SendPools: the requests to all nodes of the cluster go out at once
SendPoolsToAllNodes ==
  /\ pc = "node"
  /\ nodeIdx <= Len(clusters[cnum].Nodes)
  /\ inFlight' = inFlight \cup {[cnum |-> cnum, node |-> j, path |-> "/pools"] :
                                  j \in nodeIdx..Len(clusters[cnum].Nodes)}
  /\ pc' = "awaitPools"
  /\ UNCHANGED <<call, flags, configFile, outputFiles, stdout, clusters,
                 clusterSummary, cnum, nodeIdx, locals, requests>>

\* for _, node := range cluster.Nodes: GetPoolsData on the next node hands
\* GET node/pools to client.Do, which blocks until the answer is there
SendPools ==
  /\ pc = "node"
  /\ nodeIdx <= Len(clusters[cnum].Nodes)
  /\ inFlight' = inFlight \cup {Pending("/pools")}
  /\ pc' = "awaitPools"
  /\ UNCHANGED <<call, flags, configFile, outputFiles, stdout, clusters,
                 clusterSummary, cnum, nodeIdx, locals, requests>>

\* a slip of GetPools: the continue is missing, and after a failed /pools
\* the same node is asked for /pools/default
GetPoolsWithoutContinue ==
  /\ pc = "awaitPools"
  /\ inFlight' = inFlight \ {Pending("/pools")}
  /\ LET cluster == clusters[cnum]
         node == cluster.Nodes[nodeIdx]
         client == CreateRestClient(node, cluster.Login, cluster.Pass)
     IN  \E out \in PoolsOutcomes(node, node \o "/pools") :
           LET got == GetPoolsData(client, out)
           IN  /\ requests' = Append(requests, Request("/pools", got.err))
               /\ IF got.err # Nil
                    THEN /\ cerr' = RecordError(cerr, got.err)
                         /\ lastFailure' = Failure("/pools", got.err)
                         /\ pc' = "poolsDefault"
                         /\ pools' = Nil
                         /\ UNCHANGED nodeIdx
                    ELSE /\ pools' = got.data
                         /\ pc' = "poolsDefault"
                         /\ UNCHANGED <<cerr, nodeIdx, lastFailure>>
  /\ UNCHANGED <<call, flags, configFile, outputFiles, stdout, clusters,
                 clusterSummary, cnum, thisCluster, briefCluster, poolsDefaults>>

\* client.Do returns and GetPoolsData with it; on an error remember it and
\* try the next node
GetPools ==
  /\ pc = "awaitPools"
  /\ inFlight' = inFlight \ {Pending("/pools")}
  /\ LET cluster == clusters[cnum]
         node == cluster.Nodes[nodeIdx]
         client == CreateRestClient(node, cluster.Login, cluster.Pass)
     IN  \E out \in PoolsOutcomes(node, node \o "/pools") :
           LET got == GetPoolsData(client, out)
           IN  /\ requests' = Append(requests, Request("/pools", got.err))
               /\ IF got.err # Nil
                    THEN /\ cerr' = RecordError(cerr, got.err)
                         /\ lastFailure' = Failure("/pools", got.err)
                         /\ nodeIdx' = nodeIdx + 1
                         /\ pc' = "node"
                         /\ pools' = Nil
                    ELSE /\ pools' = got.data
                         /\ pc' = "poolsDefault"
                         /\ UNCHANGED <<cerr, nodeIdx, lastFailure>>
  /\ UNCHANGED <<call, flags, configFile, outputFiles, stdout, clusters,
                 clusterSummary, cnum, thisCluster, briefCluster, poolsDefaults>>

\* GetPoolsDefaultData on the node that answered /pools hands
\* GET node/pools/default to client.Do
SendPoolsDefault ==
  /\ pc = "poolsDefault"
  /\ inFlight' = inFlight \cup {Pending("/pools/default")}
  /\ pc' = "awaitPoolsDefault"
  /\ UNCHANGED <<call, flags, configFile, outputFiles, stdout, clusters,
                 clusterSummary, cnum, nodeIdx, locals, requests>>

\* a slip of GetPoolsDefault: after the first failure of a cluster the same
\* node is tried once more
GetPoolsDefaultRetrying ==
  /\ pc = "awaitPoolsDefault"
  /\ inFlight' = inFlight \ {Pending("/pools/default")}
  /\ LET cluster == clusters[cnum]
         node == cluster.Nodes[nodeIdx]
         client == CreateRestClient(node, cluster.Login, cluster.Pass)
     IN  \E out \in PoolsDefaultOutcomes(node \o "/pools/default") :
           LET got == GetPoolsDefaultData(client, out)
           IN  /\ requests' = Append(requests, Request("/pools/default", got.err))
               /\ IF got.err # Nil
                    THEN /\ cerr' = RecordError(cerr, got.err)
                         /\ lastFailure' = Failure("/pools/default", got.err)
                         /\ nodeIdx' = IF cerr = Nil THEN nodeIdx ELSE nodeIdx + 1
                         /\ pc' = "node"
                         /\ pools' = Nil
                         /\ poolsDefaults' = Nil
                    ELSE /\ poolsDefaults' = got.data
                         /\ pc' = "assemble"
                         /\ UNCHANGED <<cerr, nodeIdx, pools, lastFailure>>
  /\ UNCHANGED <<call, flags, configFile, outputFiles, stdout, clusters,
                 clusterSummary, cnum, thisCluster, briefCluster>>

\* client.Do returns and GetPoolsDefaultData with it; on an error remember
\* it and try the next node
GetPoolsDefault ==
  /\ pc = "awaitPoolsDefault"
  /\ inFlight' = inFlight \ {Pending("/pools/default")}
  /\ LET cluster == clusters[cnum]
         node == cluster.Nodes[nodeIdx]
         client == CreateRestClient(node, cluster.Login, cluster.Pass)
     IN  \E out \in PoolsDefaultOutcomes(node \o "/pools/default") :
           LET got == GetPoolsDefaultData(client, out)
           IN  /\ requests' = Append(requests, Request("/pools/default", got.err))
               /\ IF got.err # Nil
                    THEN /\ cerr' = RecordError(cerr, got.err)
                         /\ lastFailure' = Failure("/pools/default", got.err)
                         /\ nodeIdx' = nodeIdx + 1
                         /\ pc' = "node"
                         /\ pools' = Nil
                         /\ poolsDefaults' = Nil
                    ELSE /\ poolsDefaults' = got.data
                         /\ pc' = "assemble"
                         /\ UNCHANGED <<cerr, nodeIdx, pools, lastFailure>>
  /\ UNCHANGED <<call, flags, configFile, outputFiles, stdout, clusters,
                 clusterSummary, cnum, thisCluster, briefCluster>>

\* the *ClusterSummary of a full report
FullRecord(p, pd) ==
  [ImplementationVersion |-> p.ImplementationVersion,
   IsEnterprise |-> p.IsEnterprise,
   Uuid |-> p.Uuid,
   Balanced |-> pd.Balanced,
   ClusterName |-> pd.ClusterName,
   FtsMemoryQuota |-> pd.FtsMemoryQuota,
   IndexMemoryQuota |-> pd.IndexMemoryQuota,
   MemoryQuota |-> pd.MemoryQuota,
   Name |-> pd.Name,
   NodeCount |-> Len(pd.Nodes),
   NodeVersions |-> CountVersions(EmptyMap, pd.Nodes),
   Nodes |-> pd.Nodes,
   RebalanceStatus |-> pd.RebalanceStatus,
   StorageTotals |-> pd.StorageTotals]

\* a slip of AssembleFull: the /pools fields are those of the answer of the
\* node listed first, whichever node answered /pools/default
AssembleFullFirstNodePools ==
  /\ pc = "assemble"
  /\ flags.FULL
  /\ thisCluster' =
       FullRecord(DecodePools(PoolsDoc(clusters[cnum].Nodes[1])), poolsDefaults)
  /\ clusterSummary' =
       AddNodeCount(
         SetCluster(AddNodeVersions(clusterSummary, poolsDefaults.Nodes),
                    cnum, thisCluster'),
         poolsDefaults.Nodes)
  /\ pc' = "endCluster"
  /\ UNCHANGED <<call, inFlight, flags, configFile, outputFiles, stdout, clusters,
                 cnum, nodeIdx, briefCluster, cerr, pools, poolsDefaults, requests,
                 lastFailure>>

\* if *FULL: copy every field, tally the versions, count the nodes; break
AssembleFull ==
  /\ pc = "assemble"
  /\ flags.FULL
  /\ thisCluster' = FullRecord(pools, poolsDefaults)
  /\ clusterSummary' =
       AddNodeCount(
         SetCluster(AddNodeVersions(clusterSummary, poolsDefaults.Nodes),
                    cnum, thisCluster'),
         poolsDefaults.Nodes)
  /\ pc' = "endCluster"
  /\ UNCHANGED <<call, inFlight, flags, configFile, outputFiles, stdout, clusters, cnum, nodeIdx,
                 briefCluster, cerr, pools, poolsDefaults, requests, lastFailure>>

\* a slip of BriefNode: the bytes are divided by 1024.0 twice only
BriefNodeInMiB(nodeInfo) ==
  [Cores |-> nodeInfo.SystemStats.CPU_cores_available,
   RAM |-> DivBy1024(DivBy1024(nodeInfo.MemoryTotal)),
   Name |-> nodeInfo.Hostname,
   Version |-> nodeInfo.Version]

\* the BriefNode of a node: cores, RAM in GiB, hostname, version
BriefNode(nodeInfo) ==
  [Cores |-> nodeInfo.SystemStats.CPU_cores_available,
   RAM |-> DivBy1024(DivBy1024(DivBy1024(nodeInfo.MemoryTotal))),
   Name |-> nodeInfo.Hostname,
   Version |-> nodeInfo.Version]

\* the *BriefCluster of a brief report
BriefRecord(p, pd) ==
  LET nodes == [i \in 1..Len(pd.Nodes) |-> BriefNode(pd.Nodes[i])]
  IN  [Nodes |-> nodes, Size |-> Len(nodes), UUID |-> p.Uuid]

\* a slip of AssembleBrief: the break is missing and the next node is tried
AssembleBriefNoBreak ==
  /\ pc = "assemble"
  /\ ~flags.FULL
  /\ briefCluster' = BriefRecord(pools, poolsDefaults)
  /\ clusterSummary' =
       AddNodeVersions(
         AddNodeCount(SetCluster(clusterSummary, cnum, briefCluster'),
                      poolsDefaults.Nodes),
         poolsDefaults.Nodes)
  /\ pc' = "node"
  /\ nodeIdx' = nodeIdx + 1
  /\ UNCHANGED <<call, inFlight, flags, configFile, outputFiles, stdout, clusters, cnum,
                 thisCluster, cerr, pools, poolsDefaults, requests, lastFailure>>

\* a slip of AssembleBrief: the brief record is built whatever *FULL says
AssembleBriefAnyMode ==
  /\ pc = "assemble"
  /\ briefCluster' = BriefRecord(pools, poolsDefaults)
  /\ clusterSummary' =
       AddNodeVersions(
         AddNodeCount(SetCluster(clusterSummary, cnum, briefCluster'),
                      poolsDefaults.Nodes),
         poolsDefaults.Nodes)
  /\ pc' = "endCluster"
  /\ UNCHANGED <<call, inFlight, flags, configFile, outputFiles, stdout, clusters,
                 cnum, nodeIdx, thisCluster, cerr, pools, poolsDefaults, requests,
                 lastFailure>>

\* else: the brief record, count the nodes, tally the versions; break
AssembleBrief ==
  /\ pc = "assemble"
  /\ ~flags.FULL
  /\ briefCluster' = BriefRecord(pools, poolsDefaults)
  /\ clusterSummary' =
       AddNodeVersions(
         AddNodeCount(SetCluster(clusterSummary, cnum, briefCluster'),
                      poolsDefaults.Nodes),
         poolsDefaults.Nodes)
  /\ pc' = "endCluster"
  /\ UNCHANGED <<call, inFlight, flags, configFile, outputFiles, stdout, clusters, cnum, nodeIdx,
                 thisCluster, cerr, pools, poolsDefaults, requests, lastFailure>>

\* the *ClusterError that stands for a cluster no node of which answered
ErrorStatus(cluster, err) ==
  [TheCluster |-> cluster,
   ErrMsg |-> IF err # Nil THEN ErrorString(err) ELSE "Unknown Error"]

\* a slip of EndCluster: the nodes of a failed cluster are counted
EndClusterCounting ==
  /\ \/ pc = "endCluster"
     \/ pc = "node" /\ nodeIdx > Len(clusters[cnum].Nodes)
  /\ clusterSummary' =
       IF thisCluster = Nil /\ briefCluster = Nil
         THEN AddNodeCount(
                SetCluster(clusterSummary, cnum, ErrorStatus(clusters[cnum], cerr)),
                clusters[cnum].Nodes)
         ELSE clusterSummary
  /\ cnum' = cnum + 1
  /\ pc' = "cluster"
  /\ nodeIdx' = 0
  /\ thisCluster' = Nil /\ briefCluster' = Nil /\ cerr' = Nil
  /\ pools' = Nil /\ poolsDefaults' = Nil /\ lastFailure' = Nil
  /\ UNCHANGED <<call, inFlight, flags, configFile, outputFiles, stdout, clusters, requests>>

\* a slip of EndCluster: the error record is stored whenever an error was seen
EndClusterOnError ==
  /\ \/ pc = "endCluster"
     \/ pc = "node" /\ nodeIdx > Len(clusters[cnum].Nodes)
  /\ clusterSummary' =
       IF cerr # Nil \/ (thisCluster = Nil /\ briefCluster = Nil)
         THEN SetCluster(clusterSummary, cnum, ErrorStatus(clusters[cnum], cerr))
         ELSE clusterSummary
  /\ cnum' = cnum + 1
  /\ pc' = "cluster"
  /\ nodeIdx' = 0
  /\ thisCluster' = Nil /\ briefCluster' = Nil /\ cerr' = Nil
  /\ pools' = Nil /\ poolsDefaults' = Nil /\ lastFailure' = Nil
  /\ UNCHANGED <<call, inFlight, flags, configFile, outputFiles, stdout, clusters, requests>>

\* a slip of EndCluster: main() returns when a cluster has no record
EndClusterAbort ==
  /\ \/ pc = "endCluster"
     \/ pc = "node" /\ nodeIdx > Len(clusters[cnum].Nodes)
  /\ clusterSummary' =
       IF thisCluster = Nil /\ briefCluster = Nil
         THEN SetCluster(clusterSummary, cnum, ErrorStatus(clusters[cnum], cerr))
         ELSE clusterSummary
  /\ cnum' = cnum + 1
  /\ pc' = IF thisCluster = Nil /\ briefCluster = Nil THEN "done" ELSE "cluster"
  /\ nodeIdx' = 0
  /\ thisCluster' = Nil /\ briefCluster' = Nil /\ cerr' = Nil
  /\ pools' = Nil /\ poolsDefaults' = Nil /\ lastFailure' = Nil
  /\ UNCHANGED <<call, inFlight, flags, configFile, outputFiles, stdout, clusters,
                 requests>>

\* the end of the node loop (break, or no node left): a cluster with no
\* record gets the error record; the variables of the loop body go out of
\* scope; then the next cluster
EndCluster ==
  /\ \/ pc = "endCluster"
     \/ pc = "node" /\ nodeIdx > Len(clusters[cnum].Nodes)
  /\ clusterSummary' =
       IF thisCluster = Nil /\ briefCluster = Nil
         THEN SetCluster(clusterSummary, cnum, ErrorStatus(clusters[cnum], cerr))
         ELSE clusterSummary
  /\ cnum' = cnum + 1
  /\ pc' = "cluster"
  /\ nodeIdx' = 0
  /\ thisCluster' = Nil /\ briefCluster' = Nil /\ cerr' = Nil
  /\ pools' = Nil /\ poolsDefaults' = Nil /\ lastFailure' = Nil
  /\ UNCHANGED <<call, inFlight, flags, configFile, outputFiles, stdout, clusters, requests>>

(***************************************************************************)
(* The output.                                                             *)
(***************************************************************************)
\* the dynamic type of an element of clusterSummary.Clusters
IsFull(record) == "NodeCount" \in DOMAIN record
IsBrief(record) == "Size" \in DOMAIN record
IsError(record) == "ErrMsg" \in DOMAIN record

\* a slip of CoresColumn: the gate compares with the wrong version
CoresColumnWrongGate(node) ==
  IF StringLess(node.Version, "5.5") THEN "N/A" ELSE FormatF1(node.Cores)

\* the cpu_cores column of a row: no cores info for earlier than 6.5
CoresColumn(node) ==
  IF StringLess(node.Version, "6.5") THEN "N/A" ELSE FormatF1(node.Cores)

\* one row: cluster_num cluster_uuid cluster_size hostname cpu_cores RAM
\* (range counts the clusters from 0)
CsvRow(i, cluster, node) ==
  <<ToString(i - 1), cluster.UUID, ToString(cluster.Size), node.Name,
    CoresColumn(node), FormatF1(node.RAM)>>

CsvHeader ==
  <<"cluster_num", "cluster_uuid", "cluster_size", "hostname", "cpu_cores", "RAM">>

\* a slip of CsvRows: a cluster that is no *BriefCluster gets a row as well
RECURSIVE CsvRowsForAll(_, _)
CsvRowsForAll(cl, i) ==
  IF i > Len(cl) THEN <<>>
  ELSE (IF IsBrief(cl[i])
          THEN [k \in 1..Len(cl[i].Nodes) |-> CsvRow(i, cl[i], cl[i].Nodes[k])]
          ELSE <<<<ToString(i - 1), "", "0", "", "N/A", "0.0">>>>)
       \o CsvRowsForAll(cl, i + 1)

\* the rows of clusters i.. of the summary: the nodes of every *BriefCluster
RECURSIVE CsvRows(_, _)
CsvRows(cl, i) ==
  IF i > Len(cl) THEN <<>>
  ELSE (IF IsBrief(cl[i])
          THEN [k \in 1..Len(cl[i].Nodes) |-> CsvRow(i, cl[i], cl[i].Nodes[k])]
          ELSE <<>>)
       \o CsvRows(cl, i + 1)

\* the tab-separated report: its lines, each the sequence of its columns
RenderCsv(summary) == <<CsvHeader>> \o CsvRows(summary.Clusters, 1)

\* json.Marshal of the values main() builds, by their json tags
MarshalBriefNode(n) ==
  [cpu_cores_available |-> n.Cores, mem_total |-> n.RAM, hostname |-> n.Name,
   version |-> n.Version]

MarshalNodeInfo(n) ==
  [hostname |-> n.Hostname, memoryTotal |-> n.MemoryTotal, services |-> n.Services,
   status |-> n.Status,
   systemStats |-> [cpu_cores_available |-> n.SystemStats.CPU_cores_available],
   version |-> n.Version]

MarshalCluster(c) ==
  [login |-> c.Login, pass |-> c.Pass, nodes |-> c.Nodes]

MarshalRecord(r) ==
  IF IsBrief(r)
    THEN [nodes |-> [k \in 1..Len(r.Nodes) |-> MarshalBriefNode(r.Nodes[k])],
          cluster_size |-> r.Size, cluster_uuid |-> r.UUID]
  ELSE IF IsError(r)
    THEN [error_with_cluster |-> MarshalCluster(r.TheCluster),
          error_message |-> r.ErrMsg]
  ELSE IF IsFull(r)
    THEN [implementationVersion |-> r.ImplementationVersion,
          isEnterprise |-> r.IsEnterprise, uuid |-> r.Uuid,
          balanced |-> r.Balanced, clusterName |-> r.ClusterName,
          ftsMemoryQuota |-> r.FtsMemoryQuota,
          indexMemoryQuota |-> r.IndexMemoryQuota,
          memoryQuota |-> r.MemoryQuota, name |-> r.Name,
          nodeCount |-> r.NodeCount, nodeVersions |-> r.NodeVersions,
          nodes |-> [k \in 1..Len(r.Nodes) |-> MarshalNodeInfo(r.Nodes[k])],
          rebalanceStatus |-> r.RebalanceStatus,
          storageTotals |-> r.StorageTotals]
  ELSE "null"

\* json.MarshalIndent(clusterSummary, "", "  ")
RenderJson(summary) ==
  [x \in {"#clusters", "#nodes", "#nodeVersions", "clusters"} |->
     CASE x = "#clusters" -> summary.NumClusters
       [] x = "#nodes" -> summary.TotalNumNodes
       [] x = "#nodeVersions" -> summary.NodeVersions
       [] x = "clusters" ->
            [i \in 1..Len(summary.Clusters) |-> MarshalRecord(summary.Clusters[i])]]

\* create the output, either JSON or CSV
RenderBody(f, summary) ==
  IF f.CSV THEN [format |-> "csv", lines |-> RenderCsv(summary)]
  ELSE [format |-> "json", doc |-> RenderJson(summary)]

\* after the last cluster: render the report and write the output file;
\* the write may fail
WriteReport ==
  /\ pc = "cluster"
  /\ cnum > Len(clusters)
  /\ pc' = "done"
  /\ \E writeOk \in BOOLEAN :
       IF writeOk
         THEN /\ outputFiles' = [x \in {OutputFileName(flags)} |->
                                   RenderBody(flags, clusterSummary)]
              /\ stdout' = "Wrote information on " \o ToString(clusterSummary.NumClusters)
                             \o " clusters to file " \o OutputFileName(flags) \o "."
         ELSE /\ outputFiles' = outputFiles
              /\ stdout' = "Error writing output file " \o OutputFileName(flags)
  /\ UNCHANGED <<call, inFlight, flags, configFile, clusters, clusterSummary, cnum, nodeIdx, locals,
                 requests>>

Next ==
  \/ CheckFlags
  \/ LoadConfig
  \/ BeginCluster
  \/ SendPools
  \/ GetPools
  \/ SendPoolsDefault
  \/ GetPoolsDefault
  \/ AssembleFull
  \/ AssembleBrief
  \/ EndCluster
  \/ WriteReport

Spec == Init /\ [][Next]_vars

\* main() is one goroutine that runs statement after statement, and every
\* request handed to client.Do comes back, with an answer or with a failure
FairSpec ==
  /\ Spec
  /\ WF_vars(CheckFlags \/ LoadConfig \/ BeginCluster \/ SendPools
               \/ SendPoolsDefault \/ AssembleFull \/ AssembleBrief
               \/ EndCluster \/ WriteReport)
  /\ WF_vars(GetPools \/ GetPoolsDefault)

(***************************************************************************)
(* The REST client on its own: one call of executeGet, GetPoolsData or     *)
(* GetPoolsDefaultData on a client, for everything client.Do may return.   *)
(***************************************************************************)
\* the hosts a client is created for; the last gives a URL that
\* http.NewRequest rejects
ClientHosts == {"http://c1n1:8091", "https://c1n1:18091", ":8091"}

\* the status codes of HTTP: three digits, first digit 1 to 5
StatusCodes == 100..MaxStatus

\* the body of a 403 of the server: a message and the permissions needed
ForbiddenDoc ==
  [message |-> "Forbidden. User needs one of the following permissions",
   permissions |-> <<"cluster.pools!read", "cluster.admin!all">>]

\* the bodies a response may carry
ClientBodies(host) ==
  {TextBody(""), TextBody("<html>Service Unavailable</html>"), BrokenBody,
   JSONBody(PoolsDoc(host)), JSONBody(ForbiddenDoc)}
  \cup {JSONBody(d) : d \in {x \in PoolsDefaultDocs : Len(x.nodes) = 1}}

\* what client.Do may return for a GET of url on host: a response of any
\* status, or a failure, which http.Client.Do wraps in *url.Error
ClientOutcomes(host, url) ==
  {DoResponse(code, body) : code \in StatusCodes, body \in ClientBodies(host)}
  \cup {DoError(URLError("Get", url, inner)) :
          inner \in {NetOpError, X509UnknownAuthority, X509HostnameError,
                     ProtocolError}}

\* the calls: the client's host, what client.Do is going to return, the
\* method called ("" before the call) and what it returned
Calls(hosts) ==
  UNION {{[host |-> h, out |-> o, fn |-> "", ret |-> Nil] :
            o \in ClientOutcomes(h, h \o p)} :
           h \in hosts, p \in {"/pools", "/pools/default"}}

\* the client of a call
ClientOf(c) == CreateRestClient(c.host, "Administrator", "password")

ClientInit ==
  /\ pc = "client"
  /\ flags = [HELP |-> FALSE, FULL |-> FALSE, CSV |-> FALSE,
              CONFIG_FILE |-> "", OUTPUT_FILE |-> ""]
  /\ configFile = [exists |-> FALSE, parses |-> FALSE, Clusters |-> <<>>]
  /\ outputFiles = EmptyMap
  /\ stdout = ""
  /\ clusters = <<>>
  /\ clusterSummary = Nil
  /\ cnum = 0
  /\ nodeIdx = 0
  /\ thisCluster = Nil
  /\ briefCluster = Nil
  /\ cerr = Nil
  /\ pools = Nil
  /\ poolsDefaults = Nil
  /\ requests = <<>>
  /\ lastFailure = Nil
  /\ inFlight = {}
  /\ call \in Calls(ClientHosts)

\* everything but call
mainVars == <<pc, flags, configFile, outputFiles, stdout, clusters, clusterSummary,
              cnum, nodeIdx, thisCluster, briefCluster, cerr, pools, poolsDefaults,
              requests, lastFailure, inFlight>>

\* r.executeGet(r.host + "/pools")
CallExecuteGet ==
  /\ pc = "client" /\ call.fn = ""
  /\ call' = [call EXCEPT !.fn = "executeGet",
                          !.ret = executeGet(ClientOf(call), call.host \o "/pools",
                                             call.out)]
  /\ UNCHANGED mainVars

\* r.GetPoolsData()
CallGetPoolsData ==
  /\ pc = "client" /\ call.fn = ""
  /\ call' = [call EXCEPT !.fn = "GetPoolsData",
                          !.ret = GetPoolsData(ClientOf(call), call.out)]
  /\ UNCHANGED mainVars

\* r.GetPoolsDefaultData()
CallGetPoolsDefaultData ==
  /\ pc = "client" /\ call.fn = ""
  /\ call' = [call EXCEPT !.fn = "GetPoolsDefaultData",
                          !.ret = GetPoolsDefaultData(ClientOf(call), call.out)]
  /\ UNCHANGED mainVars

ClientNext ==
  \/ CallExecuteGet
  \/ CallGetPoolsData
  \/ CallGetPoolsDefaultData

ClientSpec == ClientInit /\ [][ClientNext]_vars

(***************************************************************************)
(* Properties.                                                             *)
(***************************************************************************)
\* the records of the summary
Records == clusterSummary.Clusters

IsSuccess(record) == IsFull(record) \/ IsBrief(record)

\* every cluster has been processed
PollingOver == clusterSummary # Nil /\ cnum > Len(clusters)

\* the requests of cluster i that completed the pair /pools, /pools/default
Answered(i) ==
  {k \in 1..Len(requests) :
     requests[k].cnum = i /\ requests[k].path = "/pools/default" /\ requests[k].ok}

\* the requests issued to nodes of cluster i
RequestsOf(i) == {k \in 1..Len(requests) : requests[k].cnum = i}

\* the uuid a success record carries
RecordUuid(record) == IF IsFull(record) THEN record.Uuid ELSE record.UUID

\* record is what polling cluster i produced: the error record of cluster i
\* when no node answered, else the record of the node that answered
ProducedFor(record, i) ==
  IF Answered(i) = {}
    THEN IsError(record) /\ record.TheCluster = configFile.Clusters[i]
    ELSE /\ IsSuccess(record)
         /\ \A k \in Answered(i) :
              /\ RecordUuid(record) = "uuid@" \o requests[k].host
              /\ \E j \in 1..Len(configFile.Clusters[i].Nodes) :
                   configFile.Clusters[i].Nodes[j] = requests[k].host

\* the same of an element of the "clusters" array of the JSON report
ReportedFor(obj, i) ==
  IF Answered(i) = {}
    THEN /\ "error_with_cluster" \in DOMAIN obj
         /\ obj.error_with_cluster.login = configFile.Clusters[i].Login
         /\ obj.error_with_cluster.nodes = configFile.Clusters[i].Nodes
    ELSE \A k \in Answered(i) :
           \/ "cluster_uuid" \in DOMAIN obj
                /\ obj.cluster_uuid = "uuid@" \o requests[k].host
           \/ "uuid" \in DOMAIN obj /\ obj.uuid = "uuid@" \o requests[k].host

\* C1: after a run the summary holds exactly one record per configured
\* cluster and the record at position i is the one produced for the i-th
\* configured cluster, in the summary and in the JSON report written from it
C1_OneRecordPerClusterInOrder ==
  PollingOver =>
    /\ Len(Records) = Len(configFile.Clusters)
    /\ clusterSummary.NumClusters = Len(configFile.Clusters)
    /\ \A i \in 1..Len(Records) : ProducedFor(Records[i], i)
    /\ \A f \in DOMAIN outputFiles :
         outputFiles[f].format = "json" =>
           LET arr == outputFiles[f].doc["clusters"]
           IN  /\ Len(arr) = Len(configFile.Clusters)
               /\ \A i \in 1..Len(arr) : ReportedFor(arr[i], i)

\* C1 witness: a finished run over two clusters, the first failed and the
\* second answered, with the report written
C1_Witness ==
  /\ pc = "done" /\ PollingOver /\ Len(clusters) = 2
  /\ IsError(Records[1]) /\ IsBrief(Records[2])
  /\ RequestsOf(1) # {}
  /\ DOMAIN outputFiles # {}

\* the node count a record states
NodeCountOf(record) ==
  IF IsFull(record) THEN record.NodeCount
  ELSE IF IsBrief(record) THEN record.Size ELSE 0

RECURSIVE SumNodeCounts(_)
SumNodeCounts(records) ==
  IF Len(records) = 0 THEN 0
  ELSE NodeCountOf(Head(records)) + SumNodeCounts(Tail(records))

\* the sum of the values of a map
RECURSIVE MapTotal(_)
MapTotal(m) ==
  IF DOMAIN m = {} THEN 0
  ELSE LET k == CHOOSE x \in DOMAIN m : TRUE
       IN  m[k] + MapTotal([x \in DOMAIN m \ {k} |-> m[x]])

\* C2: at every point of the run TotalNumNodes equals the sum of the node
\* counts of the Full/Brief records produced so far and equals the sum of
\* the values of the fleet-wide NodeVersions map
C2_TotalsAgree ==
  clusterSummary # Nil =>
    /\ clusterSummary.TotalNumNodes = SumNodeCounts(Records)
    /\ clusterSummary.TotalNumNodes = MapTotal(clusterSummary.NodeVersions)

\* C2 witness: two clusters answered, with two versions in the fleet, one
\* of them counted more than once
C2_Witness ==
  /\ PollingOver /\ Len(clusters) = 2
  /\ IsSuccess(Records[1]) /\ IsSuccess(Records[2])
  /\ Cardinality(DOMAIN clusterSummary.NodeVersions) = 2
  /\ \E v \in DOMAIN clusterSummary.NodeVersions : clusterSummary.NodeVersions[v] >= 2

\* C3 (as claimed): a processed cluster none of whose nodes answered has an
\* error record that carries the cluster's login and node list and a
\* non-empty message
C3_ErrorRecordHasMessage ==
  clusterSummary # Nil =>
    \A i \in 1..Len(clusters) :
      (i < cnum /\ Answered(i) = {}) =>
        /\ IsError(Records[i])
        /\ Records[i].TheCluster.Login = clusters[i].Login
        /\ Records[i].TheCluster.Nodes = clusters[i].Nodes
        /\ Records[i].ErrMsg # ""

\* C4: the requests of one cluster go to its nodes in listed order, starting
\* with the first, never skipping and never going back; nothing follows a
\* successful /pools/default in the same cluster; and once the poller has
\* moved to another cluster it never returns
C4_NodesInOrderStopAtSuccess ==
  /\ \A k \in 1..Len(requests) :
       /\ requests[k].cnum \in 1..Len(clusters)
       /\ requests[k].node \in 1..Len(clusters[requests[k].cnum].Nodes)
       /\ requests[k].host = clusters[requests[k].cnum].Nodes[requests[k].node]
       /\ (k = 1 \/ requests[k - 1].cnum # requests[k].cnum) => requests[k].node = 1
  /\ \A k \in 1..(Len(requests) - 1) :
       LET a == requests[k]
           b == requests[k + 1]
       IN  /\ a.cnum <= b.cnum
           /\ a.cnum = b.cnum =>
                /\ ~(a.path = "/pools/default" /\ a.ok)
                /\ b.node = a.node \/ (b.node = a.node + 1 /\ ~a.ok)

\* C4 witness: a cluster of three nodes, the first failed, the second
\* answered both calls, the cluster is done and the third was never contacted
C4_Witness ==
  /\ clusterSummary # Nil /\ Len(clusters) >= 1 /\ cnum > 1
  /\ Len(clusters[1].Nodes) = 3
  /\ Len(requests) = 3
  /\ requests[1].node = 1 /\ ~requests[1].ok
  /\ requests[2].node = 2 /\ requests[2].ok
  /\ requests[3].node = 2 /\ requests[3].ok /\ requests[3].path = "/pools/default"
  /\ IsSuccess(Records[1])

\* C5: a step changes TotalNumNodes or NodeVersions only when it stores a
\* Full or Brief record for the cluster being polled, and the step that
\* stores an error record finds no record stored for that cluster and
\* leaves both unchanged
C5_ErrorLeavesTotalsUnchanged ==
  [][(clusterSummary # Nil /\ clusterSummary' # Nil) =>
       /\ (clusterSummary'.TotalNumNodes # clusterSummary.TotalNumNodes
           \/ clusterSummary'.NodeVersions # clusterSummary.NodeVersions)
            => /\ cnum \in 1..Len(clusters)
               /\ Records[cnum] = Nil
               /\ IsSuccess(clusterSummary'.Clusters[cnum])
       /\ (cnum \in 1..Len(clusters) /\ IsError(clusterSummary'.Clusters[cnum]))
            => /\ Records[cnum] = Nil
               /\ clusterSummary'.TotalNumNodes = clusterSummary.TotalNumNodes
               /\ clusterSummary'.NodeVersions = clusterSummary.NodeVersions]_vars

\* C5 witness: the first cluster answered and was counted, the second ended
\* in an error record after its nodes were tried
C5_Witness ==
  /\ PollingOver /\ Len(clusters) = 2
  /\ IsSuccess(Records[1]) /\ IsError(Records[2])
  /\ RequestsOf(2) # {}
  /\ clusterSummary.TotalNumNodes > 0

\* C6: with --full and --csv both set the run ends at the flag check, with
\* a diagnostic, having issued no request and written no file
C6_FullWithCsvRejected ==
  (flags.FULL /\ flags.CSV) =>
    /\ pc \in {"start", "done"}
    /\ requests = <<>>
    /\ DOMAIN outputFiles = {}
    /\ pc = "done" =>
         /\ stdout # ""
         /\ (~flags.HELP /\ Len(flags.CONFIG_FILE) > 0)
              => stdout = "CSV format is not available for full reports."

\* C6 witness: a run with a configuration file and both flags has ended
C6_Witness ==
  /\ pc = "done" /\ flags.FULL /\ flags.CSV /\ ~flags.HELP
  /\ Len(flags.CONFIG_FILE) > 0 /\ configFile.exists /\ configFile.parses
  /\ Len(configFile.Clusters) > 0
  /\ stdout = "CSV format is not available for full reports."

\* s < t bytewise: s is a proper prefix of t, or at the first position where
\* they differ s has the smaller byte
LexLess(s, t) ==
  \E k \in 0..Len(s) :
    /\ k <= Len(t)
    /\ SubSeq(s, 1, k) = SubSeq(t, 1, k)
    /\ \/ k = Len(s) /\ k < Len(t)
       \/ /\ k < Len(s) /\ k < Len(t)
          /\ CharCode(SubSeq(s, k + 1, k + 1)) < CharCode(SubSeq(t, k + 1, k + 1))

\* the nodes of the brief records, in cluster order and then node order
RECURSIVE BriefNodesOf(_)
BriefNodesOf(records) ==
  IF Len(records) = 0 THEN <<>>
  ELSE (IF IsBrief(Head(records)) THEN Head(records).Nodes ELSE <<>>)
       \o BriefNodesOf(Tail(records))

\* C7: in the tab-separated report the cpu_cores column of a node's row is
\* N/A exactly when the node's version is bytewise less than "6.5" (6.1.0
\* gives N/A) and is the core count otherwise (6.6.0 gives a number)
C7_CoresColumnGate ==
  \A f \in DOMAIN outputFiles :
    outputFiles[f].format = "csv" =>
      LET lines == outputFiles[f].lines
          nodes == BriefNodesOf(Records)
      IN  /\ Len(lines) = 1 + Len(nodes)
          /\ \A r \in 1..Len(nodes) :
               /\ lines[r + 1][5] = "N/A" <=> LexLess(nodes[r].Version, "6.5")
               /\ nodes[r].Version = "6.1.0" => lines[r + 1][5] = "N/A"
               /\ nodes[r].Version = "6.6.0" => lines[r + 1][5] \in {"4.0", "8.0"}
               /\ ~LexLess(nodes[r].Version, "6.5")
                    => lines[r + 1][5] = FormatF1(nodes[r].Cores)

\* C7 witness: a written tab-separated report with a 6.6.0 row and a 6.1.0 row
C7_Witness ==
  \E f \in DOMAIN outputFiles :
    /\ outputFiles[f].format = "csv"
    /\ Len(outputFiles[f].lines) = 3
    /\ outputFiles[f].lines[2][5] = "4.0"
    /\ outputFiles[f].lines[3][5] = "N/A"

\* the number a string of digits writes
RECURSIVE DigitsValue(_, _)
DigitsValue(s, acc) ==
  IF Len(s) = 0 THEN acc
  ELSE DigitsValue(Tail(s), 10 * acc + (CharCode(Head(s)) - CharCode("0")))

\* the position of the first "." of s at or after i, Len(s) + 1 when none
RECURSIVE DotFrom(_, _)
DotFrom(s, i) ==
  IF i > Len(s) THEN i
  ELSE IF SubSeq(s, i, i) = "." THEN i ELSE DotFrom(s, i + 1)

\* the server of version major.minor.patch is older than 6.5
OlderThan65(version) ==
  LET d1 == DotFrom(version, 1)
      d2 == DotFrom(version, d1 + 1)
      major == DigitsValue(SubSeq(version, 1, d1 - 1), 0)
      minor == DigitsValue(SubSeq(version, d1 + 1, d2 - 1), 0)
  IN  major < 6 \/ (major = 6 /\ minor < 5)

\* C8 (as claimed): no report shows zero cores for a node of a server older
\* than 6.5, in the tab-separated report or in the brief records of the
\* JSON report
C8_OldServerNeverZeroCores ==
  \A f \in DOMAIN outputFiles :
    /\ outputFiles[f].format = "csv" =>
         \A r \in 1..Len(BriefNodesOf(Records)) :
           OlderThan65(BriefNodesOf(Records)[r].Version)
             => outputFiles[f].lines[r + 1][5] # "0.0"
    /\ outputFiles[f].format = "json" =>
         \A i \in 1..Len(outputFiles[f].doc["clusters"]) :
           LET obj == outputFiles[f].doc["clusters"][i]
           IN  "cluster_size" \in DOMAIN obj =>
                 \A k \in 1..Len(obj.nodes) :
                   OlderThan65(obj.nodes[k].version)
                     => obj.nodes[k].cpu_cores_available # FloatZero

\* C9: the step that stores the error record of a cluster takes its message
\* from the last failed request of that cluster, which is the failing call
\* on the last listed node; for an empty node list no request was issued
\* and the message is "Unknown Error"
C9_LastErrorReported ==
  [][(clusterSummary # Nil /\ cnum \in 1..Len(clusters) /\ cnum' = cnum + 1
      /\ IsError(clusterSummary'.Clusters[cnum])) =>
       IF Len(clusters[cnum].Nodes) = 0
         THEN /\ RequestsOf(cnum) = {}
              /\ clusterSummary'.Clusters[cnum].ErrMsg = "Unknown Error"
         ELSE /\ lastFailure # Nil
              /\ lastFailure.cnum = cnum
              /\ lastFailure.node = Len(clusters[cnum].Nodes)
              /\ clusterSummary'.Clusters[cnum].ErrMsg = lastFailure.msg
              /\ LET last == requests[Len(requests)]
                 IN  /\ last.cnum = cnum /\ last.node = lastFailure.node
                     /\ last.path = lastFailure.path /\ ~last.ok]_vars

\* C9 witness: the first cluster lists two nodes, the first failed on /pools,
\* the second on /pools/default with a 401, and the record shows the latter
C9_Witness ==
  /\ clusterSummary # Nil /\ cnum = 2 /\ Len(clusters[1].Nodes) = 2
  /\ IsError(Records[1])
  /\ Len(requests) = 3
  /\ requests[1].node = 1 /\ ~requests[1].ok
  /\ requests[3].node = 2 /\ ~requests[3].ok
  /\ Records[1].ErrMsg =
       "Authentication error executing \"GET http://c1n2:8091/pools/default\" check username and password"

\* C10: every processed cluster has a record; it is the error record exactly
\* when no node of the cluster answered both calls, and a Full or Brief
\* record otherwise, whatever errors earlier nodes gave
C10_ErrorIffNoNodeAnswered ==
  clusterSummary # Nil =>
    \A i \in 1..Len(clusters) :
      /\ i < cnum => Records[i] # Nil
      /\ Records[i] # Nil =>
           /\ IsError(Records[i]) <=> Answered(i) = {}
           /\ IsSuccess(Records[i]) <=> Answered(i) # {}
           /\ ~(IsError(Records[i]) /\ IsSuccess(Records[i]))

\* C10 witness: the first node of a cluster failed, the second answered, and
\* the cluster's record is the success record
C10_Witness ==
  /\ clusterSummary # Nil /\ cnum > 1
  /\ Len(requests) >= 3
  /\ requests[1].cnum = 1 /\ ~requests[1].ok
  /\ Answered(1) # {}
  /\ IsSuccess(Records[1])

\* the sum of clusterSize over the brief records before position i
RECURSIVE BriefSizeBefore(_, _)
BriefSizeBefore(records, i) ==
  IF i <= 1 THEN 0
  ELSE BriefSizeBefore(records, i - 1)
       + (IF IsBrief(records[i - 1]) THEN records[i - 1].Size ELSE 0)

\* C11: the tab-separated report is the header line followed by exactly one
\* row per node of every brief record, in cluster order and then node order;
\* error records give no row, so the number of rows after the header is the
\* sum of clusterSize over the brief records
C11_CsvOneRowPerBriefNode ==
  \A f \in DOMAIN outputFiles :
    outputFiles[f].format = "csv" =>
      LET lines == outputFiles[f].lines
      IN  /\ lines[1] = <<"cluster_num", "cluster_uuid", "cluster_size",
                          "hostname", "cpu_cores", "RAM">>
          /\ Len(lines) = 1 + BriefSizeBefore(Records, Len(Records) + 1)
          /\ \A i \in 1..Len(Records) :
               IsBrief(Records[i]) =>
                 \A k \in 1..Len(Records[i].Nodes) :
                   LET row == lines[1 + BriefSizeBefore(Records, i) + k]
                   IN  /\ Len(row) = 6
                       /\ row[1] = ToString(i - 1)
                       /\ row[2] = Records[i].UUID
                       /\ row[3] = ToString(Records[i].Size)
                       /\ row[4] = Records[i].Nodes[k].Name

\* C11 witness: a written tab-separated report of two clusters, the first an
\* error record and the second a brief record of two nodes: header and two
\* rows, both of the second cluster
C11_Witness ==
  /\ PollingOver /\ Len(clusters) = 2
  /\ IsError(Records[1]) /\ IsBrief(Records[2]) /\ Records[2].Size = 2
  /\ RequestsOf(1) # {}
  /\ \E f \in DOMAIN outputFiles :
       /\ outputFiles[f].format = "csv"
       /\ Len(outputFiles[f].lines) = 3
       /\ outputFiles[f].lines[2][1] = "1" /\ outputFiles[f].lines[3][1] = "1"
       /\ outputFiles[f].lines[2][4] # outputFiles[f].lines[3][4]

\* a call of the client has returned
Returned == call # Nil /\ call.fn # ""

\* the call handed a request to client.Do, which returned a response
GotResponse ==
  Returned /\ ~NewRequestFails(call.host) /\ call.out.kind = "response"

\* C12: the transport client returns a response only when the status is 200,
\* 201 or 202, and then it is the response it received; for every other
\* status it returns a failure and no response, and GetPoolsData and
\* GetPoolsDefaultData hand that failure, and no data, to the poller
C12_ResponseOnlyOn200_201_202 ==
  /\ (Returned /\ call.fn = "executeGet" /\ call.ret.resp # Nil) =>
        /\ call.out.kind = "response"
        /\ call.out.StatusCode \in {200, 201, 202}
        /\ call.ret.err = Nil
  /\ GotResponse =>
       LET success == call.out.StatusCode \in {200, 201, 202}
       IN  /\ call.fn = "executeGet" =>
                IF success
                  THEN call.ret.resp = call.out /\ call.ret.err = Nil
                  ELSE call.ret.resp = Nil /\ call.ret.err # Nil
           /\ (call.fn \in {"GetPoolsData", "GetPoolsDefaultData"} /\ ~success) =>
                call.ret.data = Nil /\ call.ret.err # Nil

\* C12 witness: a node answered GetPoolsData with 204 and a well-formed
\* document, and the call returned a failure
C12_Witness ==
  /\ GotResponse /\ call.fn = "GetPoolsData"
  /\ call.out.StatusCode = 204
  /\ call.out.Body.doc # NoJSON
  /\ call.ret.data = Nil
  /\ call.ret.err.type = "HttpError" /\ call.ret.err.code = 204

\* s begins with prefix
HasPrefix(s, prefix) ==
  Len(s) >= Len(prefix) /\ SubSeq(s, 1, Len(prefix)) = prefix

\* C13 (as claimed): every answer with a 5xx status gives the failure of the
\* server-error class (the one that points at the server logs) and not the
\* one of the unexpected-status class that any other unlisted code gives
C13_Every5xxIsServerError ==
  (GotResponse /\ call.fn = "executeGet" /\ call.out.StatusCode \in 500..599) =>
    /\ call.ret.resp = Nil
    /\ call.ret.err.type = "HttpError"
    /\ call.ret.err.code = call.out.StatusCode
    /\ HasPrefix(ErrorString(call.ret.err), "Internal server error")
    /\ ~HasPrefix(ErrorString(call.ret.err), "Recieved error")

\* sub occurs in s
Contains(s, sub) ==
  \E i \in 1..(Len(s) - Len(sub) + 1) : SubSeq(s, i, i + Len(sub) - 1) = sub

\* client.Do failed because the server's certificate is signed by an
\* authority that is not trusted; the failure comes wrapped in *url.Error
UntrustedAuthorityFailure ==
  /\ Returned /\ ~NewRequestFails(call.host)
  /\ call.out.kind = "error"
  /\ call.out.err.type = "*url.Error"
  /\ call.out.err.Err.type = "x509.UnknownAuthorityError"

\* C14 (as claimed): a request that fails on a certificate signed by an
\* untrusted authority returns the client's own UnknownAuthorityError, not
\* the generic RestClientError, and its message carries the guidance about
\* re-running without certificate verification
C14_UntrustedAuthorityHasGuidance ==
  UntrustedAuthorityFailure =>
    /\ call.ret.err # Nil
    /\ call.ret.err.type # "RestClientError"
    /\ call.ret.err.type = "UnknownAuthorityError"
    /\ Contains(ErrorString(call.ret.err), "--no-ssl-verify")

\* cluster i ended in an error record
ErrorRecordAt(i) ==
  clusterSummary # Nil /\ i <= Len(Records) /\ IsError(Records[i])

\* main() has got past the cluster loop and rendered the report (the write
\* of the file may still fail)
Rendered == pc = "done" /\ PollingOver

\* every cluster configured after cluster i that lists a node was polled
LaterPolled(i) ==
  \A j \in (i + 1)..Len(clusters) :
    Len(clusters[j].Nodes) > 0 => RequestsOf(j) # {}

\* some cluster has ended in an error record
SomeClusterFailed == \E i \in 1..MaxClusters : ErrorRecordAt(i)

\* how far main() has got inside one pass of the node loop
Stage ==
  CASE pc = "cluster" -> 0
    [] pc = "node" -> 1
    [] pc = "awaitPools" -> 2
    [] pc = "poolsDefault" -> 3
    [] pc = "awaitPoolsDefault" -> 4
    [] pc = "assemble" -> 5
    [] pc = "endCluster" -> 6
    [] OTHER -> 7

\* main() is further on after the step: in a later cluster, or at a later
\* node of the same cluster, or at a later stage with the same node
Advances ==
  \/ cnum' > cnum
  \/ cnum' = cnum /\ nodeIdx' > nodeIdx
  \/ cnum' = cnum /\ nodeIdx' = nodeIdx /\ Stage' > Stage

\* C15: once a cluster has ended in an error record the run is never cut
\* short: main() ends only after the cluster loop, with the report rendered
\* and every later cluster that lists a node polled; until then it always
\* has a next step, and every step takes it further through the finite
\* cluster and node lists, so that it gets there
C15_ExhaustionNeverAborts ==
  /\ [](SomeClusterFailed =>
          /\ cnum <= Len(clusters) + 1
          /\ nodeIdx <= MaxNodes + 1
          /\ IF pc = "done"
               THEN /\ Rendered
                    /\ \A i \in 1..MaxClusters : ErrorRecordAt(i) => LaterPolled(i)
               ELSE ENABLED Next)
  /\ [][SomeClusterFailed => Advances]_vars

\* the same as a liveness property of FairSpec
ExhaustionLeadsToRendering ==
  \A i \in 1..MaxClusters : ErrorRecordAt(i) ~> (Rendered /\ LaterPolled(i))

\* C15 witness: the first of two clusters was polled and ended in an error
\* record, the second was polled after it, and the report was written
C15_Witness ==
  /\ Rendered /\ Len(clusters) = 2
  /\ ErrorRecordAt(1) /\ RequestsOf(1) # {}
  /\ Len(clusters[2].Nodes) > 0 /\ RequestsOf(2) # {}
  /\ DOMAIN outputFiles # {}

\* the command line passes the checks made before the configuration is read
FlagsAccepted ==
  ~flags.HELP /\ Len(flags.CONFIG_FILE) > 0 /\ ~(flags.FULL /\ flags.CSV)

\* C16: when the configuration file cannot be read or cannot be parsed, the
\* run never gets past loading it: no request is issued, no output file is
\* written, and it ends with a diagnostic, which names the file and says
\* whether reading or parsing failed
C16_BadConfigEndsBeforeRequests ==
  (~configFile.exists \/ ~configFile.parses) =>
    /\ pc \in {"start", "load", "done"}
    /\ requests = <<>> /\ inFlight = {}
    /\ DOMAIN outputFiles = {}
    /\ pc = "done" =>
         /\ stdout # ""
         /\ (FlagsAccepted /\ ~configFile.exists) =>
              stdout = "Error reading configuration file " \o flags.CONFIG_FILE
         /\ (FlagsAccepted /\ configFile.exists) =>
              stdout = "Error parsing configuration file " \o flags.CONFIG_FILE

\* C16 witness: a run whose configuration file is there but is not JSON has
\* ended with the parse diagnostic
C16_Witness ==
  /\ pc = "done" /\ FlagsAccepted
  /\ configFile.exists /\ ~configFile.parses
  /\ stdout = "Error parsing configuration file clusters.json"
  /\ requests = <<>> /\ DOMAIN outputFiles = {}

\* every listed node of cluster i was tried and failed
Exhausted(i) ==
  \A j \in 1..Len(clusters[i].Nodes) :
    \E k \in RequestsOf(i) : requests[k].node = j /\ ~requests[k].ok

\* polling of cluster i has ended: by the first node that answered both
\* calls, or by running out of nodes; its record is stored
Ended(i) == Records[i] # Nil /\ (Answered(i) # {} \/ Exhausted(i))

\* the clusters a node of which has been contacted: a request to it has
\* returned or is in flight
Contacted ==
  {requests[k].cnum : k \in 1..Len(requests)} \cup {q.cnum : q \in inFlight}

\* C17: at most one request is in flight, and it goes to the node being
\* tried of the cluster being polled; requests go out in configuration order
\* of the clusters; and a node of a cluster is contacted only when polling
\* of every cluster configured before it has ended
C17_OneClusterAtATime ==
  /\ Cardinality(inFlight) <= 1
  /\ \A q \in inFlight :
       /\ pc \in {"awaitPools", "awaitPoolsDefault"}
       /\ q.cnum = cnum /\ q.node = nodeIdx
       /\ cnum \in 1..Len(clusters) /\ nodeIdx \in 1..Len(clusters[cnum].Nodes)
  /\ \A k \in 1..Len(requests) :
       /\ requests[k].cnum <= cnum
       /\ k > 1 => requests[k - 1].cnum <= requests[k].cnum
  /\ \A c \in Contacted : \A i \in 1..(c - 1) : Ended(i)

\* C17 witness: the first cluster ran out of nodes after two failed requests
\* and a request to the first node of the second cluster is in flight
C17_Witness ==
  /\ clusterSummary # Nil /\ Len(clusters) = 2 /\ cnum = 2
  /\ Len(clusters[1].Nodes) = 2 /\ Len(requests) = 3 /\ Exhausted(1)
  /\ IsError(Records[1])
  /\ inFlight = {[cnum |-> 2, node |-> 1, path |-> "/pools"]}

\* the number of node entries of version v in the brief records
RECURSIVE BriefNodesOfVersion(_, _)
BriefNodesOfVersion(records, v) ==
  IF Len(records) = 0 THEN 0
  ELSE (IF IsBrief(Head(records))
          THEN Cardinality({k \in 1..Len(Head(records).Nodes) :
                              Head(records).Nodes[k].Version = v})
          ELSE 0)
       + BriefNodesOfVersion(Tail(records), v)

\* the versions of the node entries of the brief records
BriefVersions ==
  {BriefNodesOf(Records)[k].Version : k \in 1..Len(BriefNodesOf(Records))}

\* C18: in brief mode the fleet-wide tally of a version is the number of
\* nodes of that version over the clusters polled with success, each node
\* counted once; and the brief record just built for a cluster has as
\* clusterSize the number of node entries it lists, which is the number of
\* nodes of the /pools/default answer fetched for it, entry k being node k
C18_BriefTalliesAndSize ==
  (clusterSummary # Nil /\ ~flags.FULL) =>
    /\ DOMAIN clusterSummary.NodeVersions = BriefVersions
    /\ \A v \in BriefVersions :
         clusterSummary.NodeVersions[v] = BriefNodesOfVersion(Records, v)
    /\ \A i \in 1..Len(Records) :
         IsBrief(Records[i]) => Records[i].Size = Len(Records[i].Nodes)
    /\ (pc = "endCluster" /\ briefCluster # Nil) =>
         /\ Records[cnum] = briefCluster
         /\ briefCluster.Size = Len(poolsDefaults.Nodes)
         /\ Len(briefCluster.Nodes) = Len(poolsDefaults.Nodes)
         /\ \A k \in 1..Len(poolsDefaults.Nodes) :
              /\ briefCluster.Nodes[k].Name = poolsDefaults.Nodes[k].Hostname
              /\ briefCluster.Nodes[k].Version = poolsDefaults.Nodes[k].Version

\* C18 witness: brief mode, the second cluster's record has just been built
\* from an answer listing two nodes of one version, which a node of the
\* first cluster runs as well: the tally of that version is three
C18_Witness ==
  /\ clusterSummary # Nil /\ ~flags.FULL
  /\ pc = "endCluster" /\ cnum = 2 /\ briefCluster # Nil
  /\ IsBrief(Records[1])
  /\ briefCluster.Size = 2
  /\ briefCluster.Nodes[1].Version = "6.6.0"
  /\ briefCluster.Nodes[2].Version = "6.6.0"
  /\ clusterSummary.NodeVersions["6.6.0"] = 3

\* x * 1024^3 = y, for floats m * 1024^e
TimesGiBIs(x, y) ==
  IF y.m = 0 THEN x.m = 0 ELSE x.m = y.m /\ x.e + 3 = y.e

\* C19: the RAM of a node entry of a brief record is the memoryTotal of the
\* node in the /pools/default answer divided by 1024^3; 17179869184 bytes
\* (16 * 1024^3) give 16, written 16.0, and k * 1024^3 bytes give k; the
\* reports show that value
C19_RamIsBytesOverGiB ==
  /\ (pc = "endCluster" /\ briefCluster # Nil) =>
       \A k \in 1..Len(poolsDefaults.Nodes) :
         LET bytes == poolsDefaults.Nodes[k].MemoryTotal
             ram == briefCluster.Nodes[k].RAM
         IN  /\ TimesGiBIs(ram, bytes)
             /\ bytes = Float(16, 3) => ram = Float(16, 0) /\ FormatF1(ram) = "16.0"
             /\ bytes.e = 3 => ram = Float(bytes.m, 0)
  /\ \A f \in DOMAIN outputFiles :
       LET nodes == BriefNodesOf(Records)
       IN  \A r \in 1..Len(nodes) :
             nodes[r].Name = WireNodeNew.hostname =>
               IF outputFiles[f].format = "csv"
                 THEN outputFiles[f].lines[r + 1][6] = "16.0"
                 ELSE \E i \in 1..Len(outputFiles[f].doc["clusters"]) :
                        LET obj == outputFiles[f].doc["clusters"][i]
                        IN  /\ "cluster_size" \in DOMAIN obj
                            /\ \E k \in 1..Len(obj.nodes) :
                                 /\ obj.nodes[k].hostname = WireNodeNew.hostname
                                 /\ obj.nodes[k].mem_total = Float(16, 0)

\* C19 witness: a brief record was built from an answer listing the node of
\* 17179869184 bytes and a node of 8.5 * 1024^3 bytes
C19_Witness ==
  /\ pc = "endCluster" /\ briefCluster # Nil /\ Len(poolsDefaults.Nodes) = 2
  /\ poolsDefaults.Nodes[1].MemoryTotal = Float(16, 3)
  /\ briefCluster.Nodes[1].RAM = Float(16, 0)
  /\ poolsDefaults.Nodes[2].MemoryTotal = Float(8704, 2)
  /\ FormatF1(briefCluster.Nodes[2].RAM) = "8.5"

\* C20: the record of a cluster polled with success is a full record when
\* --full is set and a brief record when it is not, so the records of one
\* run that are not error records are all of one variant; the JSON report
\* shows them the same way
C20_VariantByModeAlone ==
  clusterSummary # Nil =>
    /\ \A i \in 1..Len(Records) :
         (i < cnum /\ Answered(i) # {}) =>
           IF flags.FULL
             THEN IsFull(Records[i]) /\ ~IsBrief(Records[i])
             ELSE IsBrief(Records[i]) /\ ~IsFull(Records[i])
    /\ \A i, j \in 1..Len(Records) :
         ~(IsFull(Records[i]) /\ IsBrief(Records[j]))
    /\ \A f \in DOMAIN outputFiles :
         outputFiles[f].format = "json" =>
           \A i \in 1..Len(outputFiles[f].doc["clusters"]) :
             LET obj == outputFiles[f].doc["clusters"][i]
             IN  /\ "nodeCount" \in DOMAIN obj => flags.FULL
                 /\ "cluster_size" \in DOMAIN obj => ~flags.FULL

\* C20 witness: a finished run with --full over two clusters that both
\* answered, both records full records, the report written
C20_Witness ==
  /\ PollingOver /\ flags.FULL /\ Len(clusters) = 2
  /\ Answered(1) # {} /\ Answered(2) # {}
  /\ IsFull(Records[1]) /\ IsFull(Records[2])
  /\ DOMAIN outputFiles # {}

\* request k is the successful /pools/default of a node of cluster i and the
\* request before it is the successful /pools of the same node
AnsweredBoth(i, k) ==
  /\ k \in 2..Len(requests)
  /\ requests[k].cnum = i /\ requests[k].path = "/pools/default" /\ requests[k].ok
  /\ requests[k - 1].cnum = i /\ requests[k - 1].node = requests[k].node
  /\ requests[k - 1].path = "/pools" /\ requests[k - 1].ok

\* the /pools fields of record are those of the /pools answer of host
PoolsFieldsFrom(record, host) ==
  /\ RecordUuid(record) = PoolsDoc(host).uuid
  /\ IsFull(record) =>
       /\ record.ImplementationVersion = PoolsDoc(host).implementationVersion
       /\ record.IsEnterprise = PoolsDoc(host).isEnterprise

\* C21: a Full or Brief record is built from the /pools answer and the
\* /pools/default answer of one node, the one that answered both: its uuid
\* (and in a full record its server version) is that of this node's /pools
\* answer, never that of a node that answered /pools and then failed
\* /pools/default, and its nodes are those of this node's /pools/default
\* answer
C21_RecordFromOneNode ==
  clusterSummary # Nil =>
    /\ \A i \in 1..Len(Records) :
         IsSuccess(Records[i]) =>
           \E k \in 1..Len(requests) :
             /\ AnsweredBoth(i, k)
             /\ PoolsFieldsFrom(Records[i], requests[k].host)
             /\ \A a \in RequestsOf(i) :
                  requests[a].node # requests[k].node =>
                    RecordUuid(Records[i]) # PoolsDoc(requests[a].host).uuid
    /\ pc \in {"assemble", "endCluster"} =>
         /\ AnsweredBoth(cnum, Len(requests))
         /\ pools = DecodePools(PoolsDoc(clusters[cnum].Nodes[nodeIdx]))
         /\ requests[Len(requests)].node = nodeIdx
         /\ pc = "endCluster" =>
              /\ PoolsFieldsFrom(Records[cnum], clusters[cnum].Nodes[nodeIdx])
              /\ Len(Records[cnum].Nodes) = Len(poolsDefaults.Nodes)
              /\ IsFull(Records[cnum]) => Records[cnum].Nodes = poolsDefaults.Nodes
              /\ IsBrief(Records[cnum]) =>
                   \A n \in 1..Len(poolsDefaults.Nodes) :
                     Records[cnum].Nodes[n].Name = poolsDefaults.Nodes[n].Hostname

\* C21 witness: full mode; the first node of a cluster answered /pools and
\* failed /pools/default, the second answered both, and the record carries
\* the uuid and the server version of the second node's /pools answer
C21_Witness ==
  /\ clusterSummary # Nil /\ flags.FULL /\ cnum = 2 /\ Len(requests) = 4
  /\ requests[1].node = 1 /\ requests[1].path = "/pools" /\ requests[1].ok
  /\ requests[2].node = 1 /\ requests[2].path = "/pools/default" /\ ~requests[2].ok
  /\ AnsweredBoth(1, 4) /\ requests[4].node = 2
  /\ IsFull(Records[1])
  /\ Records[1].Uuid = "uuid@http://c1n2:8091"
  /\ Records[1].ImplementationVersion = "6.6.0-7909-enterprise"
  /\ PoolsDoc(requests[1].host).implementationVersion = "6.5.1-6299-enterprise"

\* the requests that went to node j of cluster i, in the order issued
RequestsTo(i, j) ==
  {k \in 1..Len(requests) : requests[k].cnum = i /\ requests[k].node = j}

\* C22: the first request a node gets is /pools; /pools/default goes to a
\* node only right after that node's /pools succeeded; and a node whose
\* /pools failed has got that one request and gets no other
C22_PoolsBeforePoolsDefault ==
  /\ \A k \in 1..Len(requests) :
       /\ requests[k].path \in {"/pools", "/pools/default"}
       /\ requests[k].path = "/pools/default" =>
            /\ k > 1
            /\ requests[k - 1].cnum = requests[k].cnum
            /\ requests[k - 1].node = requests[k].node
            /\ requests[k - 1].path = "/pools" /\ requests[k - 1].ok
       /\ requests[k].path = "/pools" =>
            \A a \in RequestsTo(requests[k].cnum, requests[k].node) : a >= k
       /\ (requests[k].path = "/pools" /\ ~requests[k].ok) =>
            /\ RequestsTo(requests[k].cnum, requests[k].node) = {k}
            /\ \A q \in inFlight :
                 ~(q.cnum = requests[k].cnum /\ q.node = requests[k].node)
  /\ \A q \in inFlight :
       /\ q.path \in {"/pools", "/pools/default"}
       /\ q.path = "/pools" => RequestsTo(q.cnum, q.node) = {}
       /\ q.path = "/pools/default" =>
            /\ RequestsTo(q.cnum, q.node) = {Len(requests)}
            /\ requests[Len(requests)].path = "/pools"
            /\ requests[Len(requests)].ok

\* C22 witness: the first node failed /pools and got nothing else; the
\* second answered /pools and its /pools/default is in flight
C22_Witness ==
  /\ Len(requests) = 2
  /\ requests[1].node = 1 /\ requests[1].path = "/pools" /\ ~requests[1].ok
  /\ requests[2].node = 2 /\ requests[2].path = "/pools" /\ requests[2].ok
  /\ inFlight = {[cnum |-> 1, node |-> 2, path |-> "/pools/default"]}

\* the number of node addresses the configuration lists, all clusters
\* together (an address listed twice counts twice)
RECURSIVE TotalListed(_)
TotalListed(cl) ==
  IF Len(cl) = 0 THEN 0 ELSE Len(Head(cl).Nodes) + TotalListed(Tail(cl))

\* C23: nothing is retried: a listed node is contacted in one go and gets at
\* most one /pools and one /pools/default, so that a run issues at most two
\* requests per listed node; every step takes main() further through the
\* finite lists and, as long as every request handed out returns, main() has
\* a next step until it has ended
C23_NoRetriesBoundedRequests ==
  /\ [](/\ Len(requests) + Cardinality(inFlight) <= 2 * TotalListed(clusters)
        /\ \A k \in 1..Len(requests) :
             LET mine == RequestsTo(requests[k].cnum, requests[k].node)
             IN  /\ Cardinality(mine) <= 2
                 /\ \A a \in mine : a # k => requests[a].path # requests[k].path
                 /\ \A a \in mine : a \in {k - 1, k, k + 1}
        /\ \A q \in inFlight :
             \A a \in RequestsTo(q.cnum, q.node) :
               a = Len(requests) /\ requests[a].path # q.path
        /\ clusterSummary # Nil =>
             /\ cnum <= Len(clusters) + 1
             /\ cnum <= Len(clusters) => nodeIdx <= Len(clusters[cnum].Nodes) + 1
        /\ pc # "done" => ENABLED Next)
  /\ [][/\ Len(requests') \in {Len(requests), Len(requests) + 1}
        /\ clusterSummary # Nil => Advances]_vars

\* C23 witness: a finished run over three listed nodes, each of which
\* answered /pools and failed /pools/default: six requests, the most there
\* can be
C23_Witness ==
  /\ pc = "done" /\ PollingOver
  /\ TotalListed(clusters) = 3
  /\ Len(requests) = 6
  /\ \A k \in 1..Len(requests) :
       requests[k].ok <=> requests[k].path = "/pools"

=============================================================================
